---- MODULE Spec2Model ----
(***************************************************************************)
(* jet: a command line search-and-replace tool (src/src/main.rs).          *)
(*                                                                         *)
(* main compiles the regex, dispatches to process_stdin when the path is   *)
(* "-", otherwise compiles the glob, walks the tree through the filter     *)
(* chain and hands every surviving entry to process_file on a rayon        *)
(* worker.  Text (paths, file contents, patterns) is a sequence of         *)
(* one-character strings.  Regexes are literal patterns over the content   *)
(* alphabet, replacements are literal strings without group references.    *)
(***************************************************************************)
EXTENDS Integers, Sequences, FiniteSets, TLC

(* ----------------------------- bounds --------------------------------- *)

\* number of rayon worker threads
NumWorkers == 2

\* longest file content / standard input text
MaxLen == 3

Workers == 1..NumWorkers

Alphabet == {"a", "b"}

RECURSIVE Texts(_)
\* all texts over the alphabet of length at most n
Texts(n) == IF n = 0 THEN {<<>>}
            ELSE LET T == Texts(n - 1)
                 IN  T \cup {Append(t, c) : t \in T, c \in Alphabet}

(* ------------------------- the directory tree ------------------------- *)

\* entries of the walked tree: the root, a file and a directory directly
\* inside it, and a file inside that directory
Nodes == {"root", "f1", "d2", "f3"}

NoEntry == "none"

Parent(n) == CASE n = "f1" -> "root"
               [] n = "d2" -> "root"
               [] n = "f3" -> "d2"
               [] OTHER    -> NoEntry

RECURSIVE Depth(_)
Depth(n) == IF Parent(n) = NoEntry THEN 0 ELSE 1 + Depth(Parent(n))

VARIABLES
    opts,       \* Options, as parsed from the command line
    env,        \* the world the run starts in: tree, file contents, stdin, faults
    main,       \* position of the main thread
    exitStatus, \* "running", "success" (exit 0) or "failure" (panic)
    stack,      \* entries the walker has still to yield, in depth-first order
    worker,     \* per worker: position in process_file and its locals
    content,    \* current content of every file
    handed,     \* how many times each entry was handed to process_file
    outcome,    \* how process_file ended for each entry
    stdout,     \* what was written to standard output
    stderr,     \* what was written to standard error
    ioLog       \* the I/O operations performed so far

vars == <<opts, env, main, exitStatus, stack, worker, content, handed,
          outcome, stdout, stderr, ioLog>>

Exists(n) == n \in env.nodes
IsDir(n) == n \in env.dirs
Files == env.nodes \ env.dirs
Children(n) == {c \in env.nodes : Parent(c) = n}

\* file name of an entry: its last path component
FileName(n) == env.name[n]

RECURSIVE PathOf(_)
\* e.path(): the root path joined with the components below it
PathOf(n) == IF Parent(n) = NoEntry THEN env.name[n]
             ELSE PathOf(Parent(n)) \o <<"/">> \o env.name[n]

(* --------------------------- pure functions --------------------------- *)

\* is_hidden: the file name starts with a dot
is_hidden(n) == Len(FileName(n)) > 0 /\ Head(FileName(n)) = "."

\* Regex::new(pattern) is Ok: a pattern with an unclosed group does not compile
RegexValid(p) == \A i \in 1..Len(p) : p[i] # "("

\* the pattern matches s at position i (a literal pattern)
MatchAt(p, s, i) ==
    /\ i + Len(p) - 1 <= Len(s)
    /\ \A k \in 1..Len(p) : s[i + k - 1] = p[k]

RECURSIVE ReplaceFrom(_, _, _, _)
\* replace_all from position i on: leftmost, non-overlapping matches; an
\* empty match is replaced and the scan moves one character on
ReplaceFrom(p, r, s, i) ==
    IF i > Len(s) THEN (IF p = <<>> THEN r ELSE <<>>)
    ELSE IF MatchAt(p, s, i)
         THEN IF p = <<>>
              THEN r \o <<s[i]>> \o ReplaceFrom(p, r, s, i + 1)
              ELSE r \o ReplaceFrom(p, r, s, i + Len(p))
         ELSE <<s[i]>> \o ReplaceFrom(p, r, s, i + 1)

RECURSIVE FirstFrom(_, _, _, _)
FirstFrom(p, r, s, i) ==
    IF i > Len(s) THEN (IF p = <<>> THEN r ELSE <<>>)
    ELSE IF MatchAt(p, s, i)
         THEN r \o SubSeq(s, i + Len(p), Len(s))
         ELSE <<s[i]>> \o FirstFrom(p, r, s, i + 1)

\* re.replace: only the first match is replaced
ReplaceAll_First(p, r, s) == FirstFrom(p, r, s, 1)

\* re.replace_all(&cnt, replacement)
ReplaceAll(p, r, s) == ReplaceFrom(p, r, s, 1)

\* opts.glob.as_deref().unwrap_or("*")
NoGlob == [some |-> FALSE, pat |-> <<>>]
SomeGlob(g) == [some |-> TRUE, pat |-> g]
GlobSource == IF opts.glob.some THEN opts.glob.pat ELSE <<"*">>

\* Pattern::new(glob) is Ok: an unclosed character class does not compile
GlobValid(g) == \A i \in 1..Len(g) : g[i] # "["

RECURSIVE GlobMatch_LiteralSeparator(_, _)
\* matching with require_literal_separator: "*" does not match across "/"
GlobMatch_LiteralSeparator(g, s) ==
    IF g = <<>> THEN s = <<>>
    ELSE IF Head(g) = "*"
         THEN \/ GlobMatch_LiteralSeparator(Tail(g), s)
              \/ (s # <<>> /\ Head(s) # "/" /\ GlobMatch_LiteralSeparator(g, Tail(s)))
         ELSE /\ s # <<>> /\ Head(s) = Head(g)
              /\ GlobMatch_LiteralSeparator(Tail(g), Tail(s))

RECURSIVE GlobMatch(_, _)
\* Pattern::matches with the default options: "*" matches any sequence of
\* characters, separators and leading dots included
GlobMatch(g, s) ==
    IF g = <<>> THEN s = <<>>
    ELSE IF Head(g) = "*"
         THEN GlobMatch(Tail(g), s) \/ (s # <<>> /\ GlobMatch(g, Tail(s)))
         ELSE s # <<>> /\ Head(s) = Head(g) /\ GlobMatch(Tail(g), Tail(s))

\* filter_entry predicate
FilterEntryPred(n) == is_hidden(n) \/ ~opts.include_hidden

\* .filter(|e| pattern.matches(e.path().to_string_lossy().as_ref()))
GlobOk(n) == GlobMatch(GlobSource, PathOf(n))

\* the depth filter with depth counted from 1 at the root's children
DepthOk_FromChildren(n) == opts.depth < 0 \/ Depth(n) <= opts.depth + 1

\* .filter(|e| opts.depth < 0 || e.depth() <= opts.depth as usize)
DepthOk(n) == opts.depth < 0 \/ Depth(n) <= opts.depth

\* .filter(|e| !e.path().is_dir())
NotDir(n) == ~IsDir(n)

\* the entry survives the filters that follow filter_entry
Selected(n) == GlobOk(n) /\ DepthOk(n) /\ NotDir(n)

(* ------------------------------ Init ---------------------------------- *)

StdinPath == <<"-">>

\* the faults the environment may produce
AllFaults == {"open", "read", "utf8", "create", "write", "readdir", "stdin"}

\* outcomes of an I/O step: it can fail only when the environment allows it
Outcomes(kind) == IF kind \in env.faults THEN {TRUE, FALSE} ELSE {TRUE}

DefaultNames == [n \in Nodes |->
    CASE n = "root" -> <<"r">>
      [] n = "f1"   -> <<"x">>
      [] n = "d2"   -> <<"d">>
      [] OTHER      -> <<"y">>]

\* a root directory holding f1 and d2, d2 holding f3; names vary
DirTrees ==
    {[nodes |-> Nodes, dirs |-> {"root", "d2"},
      name |-> [n \in Nodes |-> CASE n = "root" -> r
                                  [] n = "f1"   -> a
                                  [] n = "d2"   -> d
                                  [] OTHER      -> b]] :
        r \in {<<"r">>, <<".">>},
        a \in {<<"x">>, <<".", "x">>, <<"y">>},
        d \in {<<"d">>, <<".", "d">>},
        b \in {<<"x">>, <<".", "x">>}}

\* the root path names a single file
FileTrees ==
    {[nodes |-> {"root"}, dirs |-> {},
      name |-> [DefaultNames EXCEPT !["root"] = r]] :
        r \in {<<"x">>, <<".", "x">>}}

DefaultTree == [nodes |-> Nodes, dirs |-> {"root", "d2"}, name |-> DefaultNames]

MkEnv(t, c, in, f) ==
    [nodes |-> t.nodes, dirs |-> t.dirs, name |-> t.name,
     content0 |-> c, stdin |-> in, faults |-> f, prev |-> <<>>]

\* runs that exercise the entry selection: every tree, glob, level and -a
SelConfigs ==
    {<<[pattern |-> <<"a">>, replacement |-> <<"b">>, path |-> t.name["root"],
        glob |-> g, to_stdout |-> FALSE, verbose |-> FALSE, depth |-> l,
        include_hidden |-> h],
       MkEnv(t, [n \in Nodes |-> <<"a">>], <<>>, {})>> :
        t \in DirTrees \cup FileTrees,
        g \in {NoGlob, SomeGlob(<<"*", "x">>)},
        l \in {-1, 0, 1},
        h \in BOOLEAN}

\* runs that exercise process_file: every content, flag and I/O outcome
IOConfigs ==
    {<<[pattern |-> p, replacement |-> r, path |-> <<"r">>,
        glob |-> NoGlob, to_stdout |-> s, verbose |-> v, depth |-> -1,
        include_hidden |-> FALSE],
       MkEnv(DefaultTree,
             [n \in Nodes |-> IF n = "f1" THEN c ELSE <<"a", "b", "a">>],
             <<>>, AllFaults)>> :
        p \in {<<"a">>, <<"a", "b">>},
        r \in {<<"b">>, <<>>},
        s \in BOOLEAN, v \in BOOLEAN,
        c \in Texts(MaxLen)}

\* runs that exercise the set-up: invalid pattern, invalid glob, stdin mode
SetupConfigs ==
    UNION {
      {<<[pattern |-> p, replacement |-> <<"b">>, path |-> d,
          glob |-> g, to_stdout |-> s, verbose |-> v, depth |-> l,
          include_hidden |-> h],
         MkEnv(DefaultTree, [n \in Nodes |-> <<"a">>], in, AllFaults)>> :
          in \in (IF d = StdinPath THEN Texts(MaxLen) ELSE {<<>>})} :
        p \in {<<"a">>, <<"(">>},
        d \in {<<"r">>, StdinPath},
        g \in {NoGlob, SomeGlob(<<"*", "x">>), SomeGlob(<<"[">>)},
        s \in BOOLEAN, v \in BOOLEAN, h \in BOOLEAN,
        l \in {-1, 0}}

Configs == SelConfigs \cup IOConfigs \cup SetupConfigs

IdleWorker == [pc |-> "idle", entry |-> NoEntry, cnt |-> <<>>,
               modified |-> <<>>, rh |-> FALSE, wh |-> FALSE]

Init ==
    /\ \E c \in Configs : opts = c[1] /\ env = c[2]
    /\ main = "start"
    /\ exitStatus = "running"
    /\ stack = <<>>
    /\ worker = [w \in Workers |-> IdleWorker]
    /\ content = env.content0
    /\ handed = [n \in Nodes |-> 0]
    /\ outcome = [n \in Nodes |-> "none"]
    /\ stdout = {}
    /\ stderr = {}
    /\ ioLog = {}

(* ------------------------------ main ---------------------------------- *)

\* unwrap / expect on an Err: the panic message goes to standard error and
\* the process exits with a non-zero status
Panic ==
    /\ main' = "exited"
    /\ exitStatus' = "failure"
    /\ stderr' = stderr \cup {[kind |-> "panic", entry |-> NoEntry]}

\* the pattern is used without looking at the result of its compilation
CompileRegex_Lenient ==
    /\ main = "start"
    /\ main' = (IF opts.path = StdinPath THEN "stdin" ELSE "glob")
    /\ UNCHANGED <<opts, env, exitStatus, stack, worker, content, handed,
                   outcome, stdout, stderr, ioLog>>

\* Regex::new(opts.pattern.as_str()).unwrap(), then the test for "-"
CompileRegex ==
    /\ main = "start"
    /\ IF ~RegexValid(opts.pattern)
       THEN Panic
       ELSE /\ main' = (IF opts.path = StdinPath THEN "stdin" ELSE "glob")
            /\ UNCHANGED <<exitStatus, stderr>>
    /\ UNCHANGED <<opts, env, stack, worker, content, handed, outcome,
                   stdout, ioLog>>

\* process_stdin writing its result with println! instead of print!
ProcessStdin_Println ==
    /\ main = "stdin"
    /\ ioLog' = ioLog \cup {<<"stdin", NoEntry>>}
    /\ \E ok \in Outcomes("stdin") :
         IF ok
         THEN /\ stdout' = stdout \cup
                    {[kind |-> "text", entry |-> NoEntry,
                      text |-> ReplaceAll(opts.pattern, opts.replacement, env.stdin)
                                   \o <<"\n">>]}
              /\ UNCHANGED stderr
         ELSE /\ stderr' = stderr \cup {[kind |-> "stdin", entry |-> NoEntry]}
              /\ UNCHANGED stdout
    /\ main' = "exited"
    /\ exitStatus' = "success"
    /\ UNCHANGED <<opts, env, stack, worker, content, handed, outcome>>

\* process_stdin, and main's return after it
ProcessStdin ==
    /\ main = "stdin"
    /\ ioLog' = ioLog \cup {<<"stdin", NoEntry>>}
    /\ \E ok \in Outcomes("stdin") :
         IF ok
         THEN /\ stdout' = stdout \cup
                    {[kind |-> "text", entry |-> NoEntry,
                      text |-> ReplaceAll(opts.pattern, opts.replacement, env.stdin)]}
              /\ UNCHANGED stderr
         ELSE /\ stderr' = stderr \cup {[kind |-> "stdin", entry |-> NoEntry]}
              /\ UNCHANGED stdout
    /\ main' = "exited"
    /\ exitStatus' = "success"
    /\ UNCHANGED <<opts, env, stack, worker, content, handed, outcome>>

\* a glob that does not compile is used as it is and the walk starts
CompileGlob_Lenient ==
    /\ main = "glob"
    /\ main' = "walk"
    /\ stack' = <<"root">>
    /\ UNCHANGED <<opts, env, exitStatus, worker, content, handed, outcome,
                   stdout, stderr, ioLog>>

\* Pattern::new(..).expect("Invalid glob pattern"), then WalkDir::new(path)
CompileGlob ==
    /\ main = "glob"
    /\ IF ~GlobValid(GlobSource)
       THEN Panic /\ UNCHANGED stack
       ELSE /\ main' = "walk"
            /\ stack' = <<"root">>
            /\ UNCHANGED <<exitStatus, stderr>>
    /\ UNCHANGED <<opts, env, worker, content, handed, outcome,
                   stdout, ioLog>>

\* the orders in which read_dir may list the entries of S
Orders(S) == {o \in [1..Cardinality(S) -> S] : \A i, j \in 1..Cardinality(S) :
                                                  o[i] = o[j] => i = j}

\* the bridged iterator hands an entry out and yields it once more to the
\* next worker that asks
NextEntry_Twice(w) ==
    /\ main = "walk"
    /\ worker[w].pc = "idle"
    /\ stack # <<>>
    /\ LET n == Head(stack)
           pass == FilterEntryPred(n)
           again == pass /\ Selected(n) /\ handed[n] = 0
       IN  /\ ioLog' = ioLog \cup {<<"walk", n>>}
           /\ \E ok \in Outcomes("readdir") : \E o \in Orders(Children(n)) :
                stack' = (IF IsDir(n) /\ pass /\ ok
                          THEN [i \in 1..Len(o) |-> o[i]]
                          ELSE <<>>) \o (IF again THEN stack ELSE Tail(stack))
           /\ IF pass /\ Selected(n)
              THEN /\ worker' = [worker EXCEPT ![w] =
                                    [IdleWorker EXCEPT !.pc = "open", !.entry = n]]
                   /\ handed' = [handed EXCEPT ![n] = @ + 1]
              ELSE UNCHANGED <<worker, handed>>
    /\ UNCHANGED <<opts, env, main, exitStatus, content, outcome, stdout, stderr>>

\* an idle worker pulls the next entry from the bridged iterator: the walker
\* yields the entry, filter_entry prunes it or lets it through (and with it
\* its subtree), an unreadable directory yields an Err that filter_map drops,
\* and an entry that passes the remaining filters enters process_file
NextEntry(w) ==
    /\ main = "walk"
    /\ worker[w].pc = "idle"
    /\ stack # <<>>
    /\ LET n == Head(stack)
           pass == FilterEntryPred(n)
       IN  /\ ioLog' = ioLog \cup {<<"walk", n>>}
           /\ \E ok \in Outcomes("readdir") : \E o \in Orders(Children(n)) :
                stack' = (IF IsDir(n) /\ pass /\ ok
                          THEN [i \in 1..Len(o) |-> o[i]]
                          ELSE <<>>) \o Tail(stack)
           /\ IF pass /\ Selected(n)
              THEN /\ worker' = [worker EXCEPT ![w] =
                                    [IdleWorker EXCEPT !.pc = "open", !.entry = n]]
                   /\ handed' = [handed EXCEPT ![n] = @ + 1]
              ELSE UNCHANGED <<worker, handed>>
    /\ UNCHANGED <<opts, env, main, exitStatus, content, outcome, stdout, stderr>>

\* the iterator is exhausted and every worker has returned: main returns
Finish ==
    /\ main = "walk"
    /\ stack = <<>>
    /\ \A w \in Workers : worker[w].pc = "idle"
    /\ main' = "exited"
    /\ exitStatus' = "success"
    /\ UNCHANGED <<opts, env, stack, worker, content, handed, outcome,
                   stdout, stderr, ioLog>>

(* --------------------------- process_file ----------------------------- *)

\* process_file returns and its file handles stay open
Return_Leak(w, how) ==
    /\ worker' = [worker EXCEPT ![w] = [IdleWorker EXCEPT !.rh = worker[w].rh,
                                                          !.wh = worker[w].wh]]
    /\ outcome' = [outcome EXCEPT ![worker[w].entry] = how]

\* process_file returns: its locals, the open handles among them, are dropped
Return(w, how) ==
    /\ worker' = [worker EXCEPT ![w] = IdleWorker]
    /\ outcome' = [outcome EXCEPT ![worker[w].entry] = how]

\* File::open(&path)
Open(w) ==
    /\ worker[w].pc = "open"
    /\ LET n == worker[w].entry
       IN  /\ ioLog' = ioLog \cup {<<"open", n>>}
           /\ \E ok \in Outcomes("open") :
                IF ok
                THEN /\ worker' = [worker EXCEPT ![w].pc = "read", ![w].rh = TRUE]
                     /\ UNCHANGED outcome
                ELSE Return(w, "openfail")
    /\ UNCHANGED <<opts, env, main, exitStatus, stack, content, handed,
                   stdout, stderr>>

\* read_to_string with its result ignored: after a failed read process_file
\* goes on with what cnt holds, nothing
Read_IgnoreError(w) ==
    /\ worker[w].pc = "read"
    /\ LET n == worker[w].entry
       IN  /\ ioLog' = ioLog \cup {<<"read", n>>}
           /\ \E res \in {"ok"} \cup (env.faults \cap {"read", "utf8"}) :
                worker' = [worker EXCEPT ![w].pc = "replace",
                                         ![w].cnt = IF res = "ok" THEN content[n]
                                                    ELSE <<>>]
    /\ UNCHANGED <<opts, env, main, exitStatus, stack, content, handed, stdout,
                   outcome, stderr>>

\* file.read_to_string(&mut cnt)
Read(w) ==
    /\ worker[w].pc = "read"
    /\ LET n == worker[w].entry
       IN  /\ ioLog' = ioLog \cup {<<"read", n>>}
           /\ \E res \in {"ok"} \cup (env.faults \cap {"read", "utf8"}) :
                IF res = "ok"
                THEN /\ worker' = [worker EXCEPT ![w].pc = "replace",
                                                 ![w].cnt = content[n]]
                     /\ UNCHANGED <<outcome, stderr>>
                ELSE /\ Return(w, "readfail")
                     /\ stderr' = (IF opts.verbose
                                   THEN stderr \cup {[kind |-> "read", entry |-> n]}
                                   ELSE stderr)
    /\ UNCHANGED <<opts, env, main, exitStatus, stack, content, handed, stdout>>

\* the substitution with a shortcut: a text the pattern does not change is
\* not written back
Replace_SkipUnchanged(w) ==
    /\ worker[w].pc = "replace"
    /\ LET m == ReplaceAll(opts.pattern, opts.replacement, worker[w].cnt)
       IN  IF m = worker[w].cnt /\ ~opts.to_stdout
           THEN Return(w, "unchanged")
           ELSE /\ worker' = [worker EXCEPT
                                ![w].modified = m,
                                ![w].pc = (IF opts.to_stdout THEN "print" ELSE "create")]
                /\ UNCHANGED outcome
    /\ UNCHANGED <<opts, env, main, exitStatus, stack, content, handed,
                   stdout, stderr, ioLog>>

\* the substitution without the test of to_stdout: always on to File::create
Replace_IgnorePrint(w) ==
    /\ worker[w].pc = "replace"
    /\ worker' = [worker EXCEPT
                    ![w].modified = ReplaceAll(opts.pattern, opts.replacement,
                                               worker[w].cnt),
                    ![w].pc = "create"]
    /\ UNCHANGED <<opts, env, main, exitStatus, stack, content, handed, outcome,
                   stdout, stderr, ioLog>>

\* let modified = re.replace_all(&cnt, replacement), then the test of to_stdout
Replace(w) ==
    /\ worker[w].pc = "replace"
    /\ worker' = [worker EXCEPT
                    ![w].modified = ReplaceAll(opts.pattern, opts.replacement,
                                               worker[w].cnt),
                    ![w].pc = (IF opts.to_stdout THEN "print" ELSE "create")]
    /\ UNCHANGED <<opts, env, main, exitStatus, stack, content, handed, outcome,
                   stdout, stderr, ioLog>>

\* println!("{}", modified); return
PrintOut(w) ==
    /\ worker[w].pc = "print"
    /\ stdout' = stdout \cup {[kind |-> "text", entry |-> worker[w].entry,
                               text |-> worker[w].modified \o <<"\n">>]}
    /\ Return(w, "printed")
    /\ UNCHANGED <<opts, env, main, exitStatus, stack, content, handed,
                   stderr, ioLog>>

\* File::create(&path).unwrap(): a failure panics and ends the process
Create_Unwrap(w) ==
    /\ worker[w].pc = "create"
    /\ LET n == worker[w].entry
       IN  /\ ioLog' = ioLog \cup {<<"create", n>>}
           /\ \E ok \in Outcomes("create") :
                IF ok
                THEN /\ content' = [content EXCEPT ![n] = <<>>]
                     /\ worker' = [worker EXCEPT ![w].pc = "write", ![w].wh = TRUE]
                     /\ UNCHANGED <<outcome, stderr, main, exitStatus>>
                ELSE /\ Panic
                     /\ Return(w, "createfail")
                     /\ UNCHANGED content
    /\ UNCHANGED <<opts, env, stack, handed, stdout>>

\* File::create with its failure reported only when verbose is on, as read
\* failures are
Create_QuietUnlessVerbose(w) ==
    /\ worker[w].pc = "create"
    /\ LET n == worker[w].entry
       IN  /\ ioLog' = ioLog \cup {<<"create", n>>}
           /\ \E ok \in Outcomes("create") :
                IF ok
                THEN /\ content' = [content EXCEPT ![n] = <<>>]
                     /\ worker' = [worker EXCEPT ![w].pc = "write", ![w].wh = TRUE]
                     /\ UNCHANGED <<outcome, stderr>>
                ELSE /\ stderr' = (IF opts.verbose
                                   THEN stderr \cup {[kind |-> "override", entry |-> n]}
                                   ELSE stderr)
                     /\ Return(w, "createfail")
                     /\ UNCHANGED content
    /\ UNCHANGED <<opts, env, main, exitStatus, stack, handed, stdout>>

\* File::create(&path): opens for writing and truncates
Create(w) ==
    /\ worker[w].pc = "create"
    /\ LET n == worker[w].entry
       IN  /\ ioLog' = ioLog \cup {<<"create", n>>}
           /\ \E ok \in Outcomes("create") :
                IF ok
                THEN /\ content' = [content EXCEPT ![n] = <<>>]
                     /\ worker' = [worker EXCEPT ![w].pc = "write", ![w].wh = TRUE]
                     /\ UNCHANGED <<outcome, stderr>>
                ELSE /\ stderr' = stderr \cup {[kind |-> "override", entry |-> n]}
                     /\ Return(w, "createfail")
                     /\ UNCHANGED content
    /\ UNCHANGED <<opts, env, main, exitStatus, stack, handed, stdout>>

\* bytes m written at offset 0 of a file holding old
Overlay(old, m) == m \o SubSeq(old, Len(m) + 1, Len(old))

\* the write with a line terminator added after the text, as println! adds
Write_Line(w) ==
    /\ worker[w].pc = "write"
    /\ LET n == worker[w].entry
           m == worker[w].modified \o <<"\n">>
       IN  /\ ioLog' = ioLog \cup {<<"write", n>>}
           /\ content' = [content EXCEPT ![n] = m \o SubSeq(@, Len(m) + 1, Len(@))]
           /\ stdout' = (IF opts.verbose
                         THEN stdout \cup {[kind |-> "modified", entry |-> n,
                                            text |-> PathOf(n)]}
                         ELSE stdout)
           /\ Return(w, "written")
           /\ UNCHANGED stderr
    /\ UNCHANGED <<opts, env, main, exitStatus, stack, handed>>

\* modified_file.write_all(modified.as_bytes()) and the verbose status line;
\* a failing write_all has written some proper prefix of the buffer, and
\* write_all of an empty buffer makes no write and cannot fail
Write(w) ==
    /\ worker[w].pc = "write"
    /\ LET n == worker[w].entry
           m == worker[w].modified
       IN  /\ ioLog' = ioLog \cup {<<"write", n>>}
           /\ \E ok \in (IF m = <<>> THEN {TRUE} ELSE Outcomes("write")) :
                IF ok
                THEN /\ content' = [content EXCEPT ![n] = Overlay(@, m)]
                     /\ stdout' = (IF opts.verbose
                                   THEN stdout \cup {[kind |-> "modified", entry |-> n,
                                                      text |-> PathOf(n)]}
                                   ELSE stdout)
                     /\ Return(w, "written")
                     /\ UNCHANGED stderr
                ELSE /\ \E k \in 0..(Len(m) - 1) :
                          content' = [content EXCEPT ![n] = Overlay(@, SubSeq(m, 1, k))]
                     /\ stderr' = stderr \cup {[kind |-> "write", entry |-> n]}
                     /\ Return(w, "writefail")
                     /\ UNCHANGED stdout
    /\ UNCHANGED <<opts, env, main, exitStatus, stack, handed>>

(* --------------------------- specification ---------------------------- *)

Next ==
    \/ CompileRegex
    \/ ProcessStdin
    \/ CompileGlob
    \/ Finish
    \/ \E w \in Workers : NextEntry(w)
    \/ \E w \in Workers : Open(w)
    \/ \E w \in Workers : Read(w)
    \/ \E w \in Workers : Replace(w)
    \/ \E w \in Workers : PrintOut(w)
    \/ \E w \in Workers : Create(w)
    \/ \E w \in Workers : Write(w)

Spec == Init /\ [][Next]_vars

\* the tool is run a second time with the same options over the files a
\* first run without I/O failures left: the new run starts from the current
\* contents, and what the first run started from and how it ended for each
\* file is kept in env.prev
Rerun ==
    /\ main = "exited"
    /\ exitStatus = "success"
    /\ env.prev = <<>>
    /\ stderr = {}
    /\ \A n \in Nodes : handed[n] > 0 => outcome[n] \in {"written", "printed"}
    /\ env' = [env EXCEPT !.content0 = content,
                          !.prev = <<[content0 |-> env.content0,
                                      outcome |-> outcome]>>]
    /\ main' = "start"
    /\ exitStatus' = "running"
    /\ handed' = [n \in Nodes |-> 0]
    /\ outcome' = [n \in Nodes |-> "none"]
    /\ stdout' = {}
    /\ stderr' = {}
    /\ ioLog' = {}
    /\ UNCHANGED <<opts, stack, worker, content>>

NextRerun == Next \/ Rerun

\* every thread that can take a step eventually takes one
SpecFair == Init /\ [][Next]_vars /\ WF_vars(Next)

\* two consecutive runs of the tool
SpecRerun == Init /\ [][NextRerun]_vars

(* ------------------------------ claims -------------------------------- *)

RECURSIVE PathNodes(_)
\* the entry and its ancestors up to the root
PathNodes(n) == IF Parent(n) = NoEntry THEN {n} ELSE {n} \cup PathNodes(Parent(n))

\* the walker reaches n: filter_entry lets n and every directory above it through
Reached(n) == \A a \in PathNodes(n) : FilterEntryPred(a)

TreeMode == opts.path # StdinPath

\* the run is over and main returned normally
Done == main = "exited" /\ exitStatus = "success"

\* no directory listing can fail in this run
NoWalkFault == "readdir" \notin env.faults

\* C1: with include_hidden=false no entry handed to process_file has a path
\* component below the root whose name starts with a dot.
C1_NoHiddenCandidate ==
    (TreeMode /\ ~opts.include_hidden) =>
        \A n \in Nodes : handed[n] > 0 =>
            \A a \in PathNodes(n) \ {"root"} : ~is_hidden(a)

\* C2: with include_hidden=true every dot-prefixed non-directory entry that
\* matches the glob and the depth filter has been handed to process_file when
\* the run ends, whatever the names of the root and of the directories above it.
C2_HiddenIncluded ==
    (TreeMode /\ Done /\ opts.include_hidden /\ NoWalkFault) =>
        \A n \in Files :
            (is_hidden(n) /\ GlobMatch(GlobSource, PathOf(n))
                          /\ (opts.depth < 0 \/ Depth(n) <= opts.depth))
                => handed[n] > 0

\* C3 as stated: with level=0 the candidates are the direct children of the
\* root directory (a non-directory child that passes the hidden and glob
\* filters is handed over, nothing else is); with a negative level any depth
\* qualifies.
C3_Level0DirectChildren ==
    /\ (TreeMode /\ IsDir("root") /\ opts.depth = 0) =>
          \A n \in Nodes : handed[n] > 0 => Depth(n) = 1
    /\ (TreeMode /\ IsDir("root") /\ Done /\ NoWalkFault /\ opts.depth = 0) =>
          \A n \in Files :
              (Depth(n) = 1 /\ Reached(n) /\ GlobMatch(GlobSource, PathOf(n)))
                  => handed[n] > 0
    /\ (TreeMode /\ Done /\ NoWalkFault /\ opts.depth < 0) =>
          \A n \in Files :
              (Reached(n) /\ GlobMatch(GlobSource, PathOf(n))) => handed[n] > 0

\* C3 amended: an entry is handed over only if the level is negative or its
\* depth, counted from 0 at the root, is at most the level; so with level=0
\* the only candidate is the root path itself and direct children need
\* level >= 1; every non-directory entry the walker reaches that matches the
\* glob and that bound has been handed over when the run ends.
C3_DepthFilter ==
    /\ TreeMode =>
          \A n \in Nodes : handed[n] > 0 =>
              (opts.depth < 0 \/ Depth(n) <= opts.depth)
    /\ (TreeMode /\ Done /\ NoWalkFault) =>
          \A n \in Files :
              (Reached(n) /\ GlobMatch(GlobSource, PathOf(n))
                          /\ (opts.depth < 0 \/ Depth(n) <= opts.depth))
                  => handed[n] > 0

\* level=0 on a directory: the walker has visited a direct child that passes
\* every other filter, and the run ended without handing it over
C3_Witness ==
    /\ Done /\ TreeMode /\ opts.depth = 0
    /\ IsDir("root") /\ Reached("f1") /\ GlobMatch(GlobSource, PathOf("f1"))
    /\ <<"walk", "f1">> \in ioLog
    /\ handed["f1"] = 0

InPlace == TreeMode /\ ~opts.to_stdout

\* C4: in stdout mode no file is opened for writing or truncated and every
\* file keeps the content it had before the run, at every point of every
\* interleaving.
C4_StdoutModeNoWrite ==
    (TreeMode /\ opts.to_stdout) =>
        /\ \A n \in Files : content[n] = env.content0[n]
        /\ \A n \in Nodes : <<"create", n>> \notin ioLog /\ <<"write", n>> \notin ioLog
        /\ \A w \in Workers : ~worker[w].wh

\* a --print run is over, both files were printed, and the text printed for
\* f1 differs from what f1 holds
C4_Witness ==
    /\ Done /\ TreeMode /\ opts.to_stdout
    /\ outcome["f1"] = "printed" /\ outcome["f3"] = "printed"
    /\ \E m \in stdout : m.entry = "f1" /\ m.text # content["f1"] \o <<"\n">>

\* C5: in in-place mode a file whose processing ended in a failed I/O step
\* (open-for-read, read, open-for-write, write) holds its original content.
C5_FailedStepKeepsContent ==
    InPlace =>
        \A n \in Files :
            outcome[n] \in {"openfail", "readfail", "createfail", "writefail"}
                => content[n] = env.content0[n]

\* C6: with a pattern that does not compile the run does no I/O on the tree
\* or on standard input, hands nothing to a worker, and ends with a non-zero
\* exit status.
C6_InvalidPatternNoIO ==
    ~RegexValid(opts.pattern) =>
        /\ ioLog = {} /\ stdout = {}
        /\ \A n \in Nodes : handed[n] = 0 /\ content[n] = env.content0[n]
        /\ main \in {"start", "exited"}
        /\ main = "exited" => exitStatus = "failure"

\* the run with an invalid pattern is over
C6_Witness ==
    /\ ~RegexValid(opts.pattern)
    /\ main = "exited" /\ exitStatus = "failure"

BadGlob == opts.glob.some /\ ~GlobValid(opts.glob.pat)

\* C7 as stated: with a glob that does not compile the run does no I/O and
\* ends with a non-zero exit status, for every root path, "-" included.
C7_InvalidGlobNoIO ==
    BadGlob =>
        /\ ioLog = {}
        /\ main = "exited" => exitStatus = "failure"

\* C7 amended: with a glob that does not compile and a root path other than
\* "-" the run does no I/O and ends with a non-zero exit status; with the
\* root path "-" the glob is never compiled: a run with a valid pattern reads
\* standard input, touches no file and ends with exit status zero.
C7_InvalidGlobTreeMode ==
    BadGlob =>
        /\ TreeMode =>
              /\ ioLog = {} /\ stdout = {}
              /\ \A n \in Nodes : handed[n] = 0 /\ content[n] = env.content0[n]
              /\ main \in {"start", "glob", "exited"}
              /\ main = "exited" => exitStatus = "failure"
        /\ (~TreeMode /\ RegexValid(opts.pattern) /\ main = "exited") =>
              /\ exitStatus = "success"
              /\ ioLog = {<<"stdin", NoEntry>>}

\* the run with a valid pattern, an invalid glob and a directory root is over
C7_Witness ==
    /\ BadGlob /\ TreeMode /\ RegexValid(opts.pattern)
    /\ main = "exited" /\ exitStatus = "failure"

\* C8: a file whose open-for-read or read failed has, with verbose on, an
\* error naming it on standard error, and with verbose off no output at all;
\* nothing further was done to it.
C8_ReadFailureReported ==
    TreeMode =>
        \A n \in Files : outcome[n] \in {"openfail", "readfail"} =>
            /\ opts.verbose => \E e \in stderr : e.entry = n
            /\ ~opts.verbose => \A e \in stderr \cup stdout : e.entry # n
            /\ content[n] = env.content0[n]

\* C9: in in-place mode a file whose open-for-write or write failed has an
\* error on standard error, verbose or not, and no "modified" line.
C9_WriteFailureReported ==
    InPlace =>
        \A n \in Files :
            /\ outcome[n] = "createfail" =>
                  [kind |-> "override", entry |-> n] \in stderr
            /\ outcome[n] = "writefail" =>
                  [kind |-> "write", entry |-> n] \in stderr
            /\ outcome[n] \in {"createfail", "writefail"} =>
                  \A m \in stdout : ~(m.kind = "modified" /\ m.entry = n)

\* verbose is off, one file failed in File::create and the other in write_all
C9_Witness ==
    /\ InPlace /\ ~opts.verbose
    /\ \E n, m \in Files : outcome[n] = "createfail" /\ outcome[m] = "writefail"

\* s starts with p
IsPrefix(p, s) == Len(p) <= Len(s) /\ SubSeq(s, 1, Len(p)) = p

RECURSIVE DirectReplace(_, _, _)
\* the text s with every non-overlapping occurrence of the non-empty literal
\* p, taken from the left, replaced by r
DirectReplace(p, r, s) ==
    IF s = <<>> THEN <<>>
    ELSE IF IsPrefix(p, s)
         THEN r \o DirectReplace(p, r, SubSeq(s, Len(p) + 1, Len(s)))
         ELSE <<Head(s)>> \o DirectReplace(p, r, Tail(s))

\* C10: in in-place mode a file whose read and write both succeeded holds
\* its original content with every non-overlapping match of the pattern
\* replaced by the replacement, under every interleaving of the workers.
C10_InPlaceResult ==
    InPlace =>
        \A n \in Files : outcome[n] = "written" =>
            content[n] = DirectReplace(opts.pattern, opts.replacement,
                                       env.content0[n])

\* both files were rewritten, f3 ("aba") with more than one match replaced
C10_Witness ==
    /\ Done /\ InPlace
    /\ outcome["f1"] = "written" /\ outcome["f3"] = "written"
    /\ content["f1"] # env.content0["f1"]
    /\ opts.pattern = <<"a">> /\ env.content0["f3"] = <<"a", "b", "a">>
    /\ content["f3"] = opts.replacement \o <<"b">> \o opts.replacement

\* the text s holds no occurrence of the non-empty literal p
NoOccurrence(p, s) ==
    \A i \in 1..Len(s) : ~IsPrefix(p, SubSeq(s, i, Len(s)))

\* this is the second run, and both runs read and rewrote the file n
RewrittenTwice(n) ==
    /\ env.prev # <<>>
    /\ env.prev[1].outcome[n] = "written"
    /\ outcome[n] = "written"

\* C11 as stated: when the replacement holds no occurrence of the pattern, a
\* second in-place run over the already-transformed file leaves its content
\* as the first run left it.
C11_Idempotent ==
    (InPlace /\ NoOccurrence(opts.pattern, opts.replacement)) =>
        \A n \in Files : RewrittenTwice(n) => content[n] = env.content0[n]

\* C11 amended: when the already-transformed file itself holds no occurrence
\* of the pattern, a second in-place run that reads and rewrites it leaves
\* its content as the first run left it.  (A replacement free of the pattern
\* does not ensure that: pattern "ab", replacement "b" turn "aab" into "ab"
\* and a second run turns that into "b".)
C11_IdempotentOnMatchFree ==
    InPlace =>
        \A n \in Files :
            (RewrittenTwice(n) /\ NoOccurrence(opts.pattern, env.content0[n]))
                => content[n] = env.content0[n]

\* both runs rewrote f1, the first one changed it, and what it left holds no
\* occurrence of the pattern
C11_Witness ==
    /\ InPlace /\ Done /\ RewrittenTwice("f1")
    /\ env.prev[1].content0["f1"] # env.content0["f1"]
    /\ NoOccurrence(opts.pattern, env.content0["f1"])
    /\ content["f1"] = env.content0["f1"]

\* s ends with t
IsSuffix(t, s) == Len(t) <= Len(s) /\ SubSeq(s, Len(s) - Len(t) + 1, Len(s)) = t

\* the path of n matches the supplied glob, for a glob that is a literal or
\* "*" followed by a literal: the path is, or ends with, that literal
MatchesSuppliedGlob(n) ==
    IF opts.glob.pat # <<>> /\ Head(opts.glob.pat) = "*"
    THEN IsSuffix(Tail(opts.glob.pat), PathOf(n))
    ELSE PathOf(n) = opts.glob.pat

\* C12: an entry whose full path does not match the supplied glob is never
\* handed to process_file, never opened, and keeps its content; without a
\* glob the default pattern rejects nothing: every non-directory entry the
\* walker reaches within the depth bound has been handed over when the run
\* ends.
C12_GlobFilter ==
    /\ (TreeMode /\ opts.glob.some /\ GlobValid(opts.glob.pat)) =>
          \A n \in Nodes : ~MatchesSuppliedGlob(n) =>
              /\ handed[n] = 0 /\ outcome[n] = "none"
              /\ \A op \in {"open", "read", "create", "write"} : <<op, n>> \notin ioLog
              /\ content[n] = env.content0[n]
    /\ (TreeMode /\ ~opts.glob.some /\ Done /\ NoWalkFault) =>
          \A n \in Files :
              (Reached(n) /\ (opts.depth < 0 \/ Depth(n) <= opts.depth))
                  => handed[n] > 0

\* a run with a glob is over: the walker visited two files, the one that
\* matches was rewritten, the other was not handed over
C12_Witness ==
    /\ Done /\ TreeMode /\ opts.glob.some
    /\ \E n, m \in Files :
          /\ MatchesSuppliedGlob(n) /\ outcome[n] = "written"
          /\ ~MatchesSuppliedGlob(m) /\ <<"walk", m>> \in ioLog /\ handed[m] = 0

\* C13: with the root path "-" and a valid pattern the run reads standard
\* input and nothing else, traverses nothing and opens no file; when the read
\* succeeds standard output holds exactly the substitution result, with no
\* newline added, whatever glob, level, include_hidden, print and verbose
\* are; when the read fails nothing is written to standard output.
C13_StdinMode ==
    (~TreeMode /\ RegexValid(opts.pattern)) =>
        /\ ioLog \subseteq {<<"stdin", NoEntry>>}
        /\ \A n \in Nodes : handed[n] = 0 /\ content[n] = env.content0[n]
        /\ main \in {"start", "stdin", "exited"}
        /\ main = "exited" =>
              /\ exitStatus = "success"
              /\ ioLog = {<<"stdin", NoEntry>>}
              /\ IF stderr = {}
                 THEN stdout = {[kind |-> "text", entry |-> NoEntry,
                                 text |-> DirectReplace(opts.pattern, opts.replacement,
                                                        env.stdin)]}
                 ELSE stdout = {}

\* a stdin run given -p, -v, -a and a glob that does not compile is over and
\* its output differs from its input
C13_Witness ==
    /\ ~TreeMode /\ Done
    /\ opts.to_stdout /\ opts.verbose /\ opts.include_hidden /\ BadGlob
    /\ \E m \in stdout : m.text # env.stdin

\* C14 as stated: no worker holds a read handle and a write handle on its
\* file at the same time.
C14_NoReadWriteOverlap ==
    \A w \in Workers : ~(worker[w].rh /\ worker[w].wh)

\* C14 amended: the read handle is held from a successful File::open until
\* process_file returns, and the write handle from a successful File::create
\* until process_file returns; so the whole content has been read before the
\* write handle is opened, but the read handle is still open while the file
\* is truncated and written.
C14_HandleLifetime ==
    \A w \in Workers :
        /\ worker[w].rh <=> worker[w].pc \in {"read", "replace", "print", "create", "write"}
        /\ worker[w].wh <=> worker[w].pc = "write"
        /\ worker[w].pc = "write" => content[worker[w].entry] = <<>>

\* a worker has truncated its file and holds both handles on it
C14_Witness ==
    \E w \in Workers :
        /\ worker[w].pc = "write" /\ worker[w].rh /\ worker[w].wh
        /\ worker[w].cnt # <<>> /\ content[worker[w].entry] = <<>>

\* C15: for each file read precedes transform precedes write/print: a worker
\* past the read holds the whole content of its file, a worker at the print
\* or on the write path holds the substituted text, a file is truncated or
\* printed only after its read succeeded, and a file whose open or read
\* failed is never truncated, written or printed.
C15_ReadTransformWrite ==
    TreeMode =>
        /\ \A w \in Workers :
              LET n == worker[w].entry IN
              /\ worker[w].pc \in {"replace", "print", "create", "write"} =>
                    /\ worker[w].cnt = env.content0[n]
                    /\ <<"read", n>> \in ioLog
              /\ worker[w].pc \in {"replace", "print", "create"} =>
                    /\ <<"create", n>> \notin ioLog
                    /\ \A m \in stdout : m.entry # n
              /\ worker[w].pc \in {"print", "create", "write"} =>
                    worker[w].modified =
                        DirectReplace(opts.pattern, opts.replacement, worker[w].cnt)
        /\ \A n \in Files :
              /\ (<<"create", n>> \in ioLog \/ \E m \in stdout : m.entry = n) =>
                    /\ <<"open", n>> \in ioLog /\ <<"read", n>> \in ioLog
                    /\ outcome[n] \notin {"openfail", "readfail"}
              /\ <<"write", n>> \in ioLog => <<"create", n>> \in ioLog
              /\ content[n] # env.content0[n] => <<"create", n>> \in ioLog
              /\ outcome[n] \in {"openfail", "readfail"} =>
                    /\ <<"create", n>> \notin ioLog /\ <<"write", n>> \notin ioLog
                    /\ content[n] = env.content0[n]
                    /\ \A m \in stdout : m.entry # n

\* the run is over: the read of one file failed and the file is untouched,
\* the other file was read, transformed and rewritten
C15_Witness ==
    /\ Done /\ TreeMode
    /\ \E n, m \in Files :
          /\ outcome[n] = "readfail" /\ env.content0[n] # <<>>
          /\ outcome[m] = "written" /\ content[m] # env.content0[m]

\* the walker yielded n and n passes every filter: n is a candidate
Candidate(n) ==
    /\ <<"walk", n>> \in ioLog
    /\ FilterEntryPred(n) /\ ~IsDir(n)
    /\ GlobMatch(GlobSource, PathOf(n))
    /\ (opts.depth < 0 \/ Depth(n) <= opts.depth)

\* C16: a tree-mode run with a valid pattern and glob terminates with exit
\* status zero; when it ends every candidate has been handed to process_file
\* and process_file has returned for it, whatever failed for other files,
\* and every entry listed beside a yielded entry has been yielded too,
\* whatever directory could not be listed.
C16_RunsToCompletion ==
    /\ (TreeMode /\ RegexValid(opts.pattern) /\ GlobValid(GlobSource)) ~> Done
    /\ [](TreeMode /\ main = "exited" /\ RegexValid(opts.pattern)
                   /\ GlobValid(GlobSource) =>
            /\ exitStatus = "success"
            /\ \A n \in Files : Candidate(n) => handed[n] = 1 /\ outcome[n] # "none"
            /\ \A n \in env.nodes : <<"walk", n>> \in ioLog =>
                  \A m \in Children(Parent(n)) : <<"walk", m>> \in ioLog)

\* the run is over with exit status zero: the directory d2 could not be
\* listed, File::create failed for the file f1, which was handed over all
\* the same
C16_Witness ==
    /\ Done /\ TreeMode
    /\ FilterEntryPred("d2") /\ <<"walk", "d2">> \in ioLog /\ <<"walk", "f3">> \notin ioLog
    /\ handed["f1"] = 1 /\ outcome["f1"] = "createfail"

\* the workers inside process_file for the entry n
WorkersOn(n) == {w \in Workers : worker[w].pc # "idle" /\ worker[w].entry = n}

\* C17: every candidate is handed to process_file exactly once and to one
\* worker: an entry is never handed over twice, no two workers are ever
\* inside process_file for the same file, an entry handed over is either
\* held by one worker or done with, and when the run ends every candidate
\* has been handed over once.
C17_OneWorkerPerFile ==
    TreeMode =>
        /\ \A n \in Nodes :
              /\ handed[n] <= 1
              /\ Cardinality(WorkersOn(n)) <= 1
              /\ handed[n] = 1 <=> (WorkersOn(n) # {} \/ outcome[n] # "none")
              /\ ~(WorkersOn(n) # {} /\ outcome[n] # "none")
              /\ handed[n] = 1 => Candidate(n)
        /\ \A w \in Workers : worker[w].pc # "idle" => worker[w].entry \in Files
        /\ Done => \A n \in Files : Candidate(n) => handed[n] = 1

\* two workers are at work at the same time, one writing its file and the
\* other reading or writing another file
C17_Witness ==
    \E w1, w2 \in Workers :
        /\ w1 # w2
        /\ worker[w1].pc = "write" /\ worker[w2].pc \in {"read", "write"}
        /\ worker[w1].entry # worker[w2].entry

\* the files a run with include_hidden=false hands over: filter_entry lets
\* every entry through, so they are the files that pass the other filters
HandedWithoutAll == {n \in Files : Selected(n)}

\* C18: a run with include_hidden=true hands over every file that the run
\* with include_hidden=false on the same tree, glob and level hands over.
C18_AllIsSuperset ==
    /\ (TreeMode /\ Done /\ NoWalkFault /\ ~opts.include_hidden) =>
          {n \in Files : handed[n] > 0} = HandedWithoutAll
    /\ (TreeMode /\ Done /\ NoWalkFault /\ opts.include_hidden) =>
          \A n \in HandedWithoutAll : handed[n] > 0

\* process_file read the whole of n and has returned
ReadAndDone(n) == outcome[n] \in {"written", "createfail", "writefail"}

\* C19 as stated: in in-place mode every candidate whose read succeeded is
\* opened for writing whether or not the pattern matches, and one without a
\* match ends with its original content only if both the open-for-write and
\* the write succeeded.
C19_NoMatchKeptOnlyIfWritten ==
    InPlace =>
        \A n \in Files :
            /\ ReadAndDone(n) => <<"create", n>> \in ioLog
            /\ (ReadAndDone(n) /\ NoOccurrence(opts.pattern, env.content0[n])
                               /\ content[n] = env.content0[n])
                  => outcome[n] = "written"

\* C19 amended: in in-place mode File::create is called for every candidate
\* whose read succeeded, whether or not the pattern matches, and the file is
\* truncated and written when the call succeeds; a candidate without a match
\* ends with its original content when File::create fails (the file is
\* untouched) or when both File::create and the write succeed, and ends
\* with a proper prefix of it when File::create succeeds and the write fails.
C19_NoMatchRewritten ==
    InPlace =>
        /\ \A n \in Files :
              /\ ReadAndDone(n) => <<"create", n>> \in ioLog
              /\ outcome[n] \in {"written", "writefail"} => <<"write", n>> \in ioLog
              /\ (Done /\ handed[n] = 1) =>
                    (outcome[n] \in {"openfail", "readfail"} \/ ReadAndDone(n))
              /\ (ReadAndDone(n) /\ NoOccurrence(opts.pattern, env.content0[n])) =>
                    /\ outcome[n] \in {"written", "createfail"} =>
                          content[n] = env.content0[n]
                    /\ outcome[n] = "writefail" =>
                          /\ content[n] # env.content0[n]
                          /\ IsPrefix(content[n], env.content0[n])
        /\ \A w \in Workers :
              worker[w].pc = "write" => content[worker[w].entry] = <<>>

\* the run is over: f1 holds no match, was truncated, and its write failed
C19_Witness ==
    /\ Done /\ InPlace
    /\ NoOccurrence(opts.pattern, env.content0["f1"])
    /\ outcome["f1"] = "writefail"
    /\ content["f1"] # env.content0["f1"]

====
